---- MODULE Spec2Model ----
(***************************************************************************)
(* Model of agent_tools.py: the catalog of pure metric functions over a    *)
(* sales table and an inventory table, and the summary composer.           *)
(*                                                                         *)
(* A DataFrame is a sequence of rows (records keyed by the column names    *)
(* without blanks).  Numeric cells are integers; the float results of the  *)
(* divisions are exact rationals extended with the IEEE values inf, -inf   *)
(* and nan that pandas' element-wise division produces.  A Python string   *)
(* built by concatenation is the sequence of its pieces.                   *)
(***************************************************************************)
EXTENDS Integers, Sequences, FiniteSets, TLC

VARIABLES sales, inv, fn, args, out

vars == <<sales, inv, fn, args, out>>

(* ------------------------------ bounds --------------------------------- *)

MaxRows == 3
MaxInv == 3
MaxList == 2

(* --------------------------- value domains ----------------------------- *)

\* Item names and time labels, listed in ascending (lexicographic) order,
\* the order pandas' groupby(sort=True) gives the group keys.
Items == <<"Coffee", "Milk", "Tea">>
Times == <<"09:00", "10:00">>

ItemSet == {Items[i] : i \in 1..Len(Items)}
TimeSet == {Times[i] : i \in 1..Len(Times)}

StockVals == {0, 1, 2, 10, 50}
Thresholds == {1, 2, 10}

\* Position of a key in the ascending order of its column's values.
KeyOrder(k) ==
    IF k \in ItemSet THEN CHOOSE i \in 1..Len(Items) : Items[i] = k
    ELSE CHOOSE i \in 1..Len(Times) : Times[i] = k

SeqsUpTo(S, n) == UNION {[1..m -> S] : m \in 0..n}

Range(s) == {s[i] : i \in 1..Len(s)}

\* Python's None, and the value of a call that has not happened
None == [kind |-> "None"]
NoArgs == [kind |-> "noargs"]

\* A returned value and a raised exception
Return(v) == [ok |-> TRUE, val |-> v]
Raise(e) == [ok |-> FALSE, err |-> e]

InvRow(i, s) == [Item |-> i, Stock |-> s]
SaleRow(i, q, tp, p, t) ==
    [Item |-> i, Quantity |-> q, TotalPrice |-> tp, Profit |-> p, Time |-> t]

(* --------------------------- inventory metrics ------------------------- *)

\* df[col]: a column of the table, as the sequence of its cells
Column(df, col) == [i \in 1..Len(df) |-> df[i][col]]

\* df[mask]: the rows whose mask cell is true, in row order
RECURSIVE Filter(_, _)
Filter(df, mask) ==
    IF df = <<>> THEN <<>>
    ELSE (IF Head(mask) THEN <<Head(df)>> ELSE <<>>)
         \o Filter(Tail(df), Tail(mask))

low_stock_items_le(inventory_df, threshold) ==
    LET stock == Column(inventory_df, "Stock")
        mask == [i \in 1..Len(stock) |-> stock[i] <= threshold]
    IN  Column(Filter(inventory_df, mask), "Item")

low_stock_items(inventory_df, threshold) ==
    LET stock == Column(inventory_df, "Stock")
        mask == [i \in 1..Len(stock) |-> stock[i] < threshold]
    IN  Column(Filter(inventory_df, mask), "Item")

fast_movers_lt(inventory_df) ==
    LET stock == Column(inventory_df, "Stock")
        mask == [i \in 1..Len(stock) |-> stock[i] < 1]
    IN  Column(Filter(inventory_df, mask), "Item")

fast_movers_le2(inventory_df) ==
    LET stock == Column(inventory_df, "Stock")
        mask == [i \in 1..Len(stock) |-> stock[i] <= 2]
    IN  Column(Filter(inventory_df, mask), "Item")

fast_movers(inventory_df) ==
    LET stock == Column(inventory_df, "Stock")
        mask == [i \in 1..Len(stock) |-> stock[i] <= 1]
    IN  Column(Filter(inventory_df, mask), "Item")

\* threshold: int = 10
DefaultThreshold == 10

\* list(a_set): the elements of the set, each once, in an order that
\* depends on the string hashes of the run; every order is possible
ListOfSet(S) == {l \in [1..Cardinality(S) -> S] : Range(l) = S}

unsold_items_swapped(inventory_df, sales_df) ==
    LET sold_items == Range(Column(sales_df, "Item"))
        all_items == Range(Column(inventory_df, "Item"))
    IN  ListOfSet(sold_items \ all_items)

\* The set of lists unsold_items may return
unsold_items(inventory_df, sales_df) ==
    LET sold_items == Range(Column(sales_df, "Item"))
        all_items == Range(Column(inventory_df, "Item"))
    IN  ListOfSet(all_items \ sold_items)

(* ------------------------------- floats -------------------------------- *)

RECURSIVE GCD(_, _)
GCD(a, b) == IF b = 0 THEN a ELSE GCD(b, a % b)

Abs(x) == IF x < 0 THEN -x ELSE x

\* A finite float n/d in lowest terms with d > 0, and the three IEEE specials
Fin(n, d) ==
    LET g == GCD(Abs(n), Abs(d))
        sgn == IF d < 0 THEN -1 ELSE 1
    IN  [kind |-> "fin", n |-> sgn * (n \div g), d |-> sgn * (d \div g)]

Inf == [kind |-> "inf", n |-> 1, d |-> 0]
NegInf == [kind |-> "-inf", n |-> -1, d |-> 0]
NaN == [kind |-> "nan", n |-> 0, d |-> 0]

TrueDiv_zero(a, b) == IF b # 0 THEN Fin(a, b) ELSE Fin(0, 1)

\* a / b on numpy numbers: a zero divisor gives inf, -inf or nan
TrueDiv(a, b) ==
    IF b # 0 THEN Fin(a, b)
    ELSE IF a > 0 THEN Inf
    ELSE IF a < 0 THEN NegInf
    ELSE NaN

\* x * 100
Times100(x) == IF x.kind = "fin" THEN Fin(x.n * 100, x.d) ELSE x

FloatRank(x) == IF x.kind = "-inf" THEN -1 ELSE IF x.kind = "inf" THEN 1 ELSE 0

\* x < y on floats: false when either is nan
FloatLess(x, y) ==
    IF x.kind = "nan" \/ y.kind = "nan" THEN FALSE
    ELSE IF x.kind = "fin" /\ y.kind = "fin" THEN x.n * y.d < y.n * x.d
    ELSE FloatRank(x) < FloatRank(y)

(* ---------------------------- sales metrics ---------------------------- *)

\* series.sum()
RECURSIVE Sum(_)
Sum(series) == IF series = <<>> THEN 0 ELSE Head(series) + Sum(Tail(series))

gross_margin_unguarded(df) ==
    LET revenue == Sum(Column(df, "TotalPrice"))
        profit == Sum(Column(df, "Profit"))
    IN  Times100(TrueDiv(profit, revenue))

gross_margin(df) ==
    LET revenue == Sum(Column(df, "TotalPrice"))
        profit == Sum(Column(df, "Profit"))
    IN  IF revenue # 0 THEN Times100(TrueDiv(profit, revenue)) ELSE Fin(0, 1)

average_basket_size(df) ==
    IF Len(df) # 0 THEN TrueDiv(Sum(Column(df, "Quantity")), Len(df))
    ELSE Fin(0, 1)

\* The rows of df whose cell in column by is k
RowsOfKey(df, by, k) ==
    Filter(df, [i \in 1..Len(df) |-> df[i][by] = k])

\* The group keys in order of first appearance (groupby(sort=False))
RECURSIVE AppearanceKeys(_)
AppearanceKeys(col) ==
    IF col = <<>> THEN <<>>
    ELSE LET front == AppearanceKeys(SubSeq(col, 1, Len(col) - 1))
             last == col[Len(col)]
         IN  IF last \in Range(front) THEN front ELSE Append(front, last)

\* The group keys in ascending order (groupby sorts its keys by default)
SortedKeys(col) ==
    LET K == Range(col)
    IN  [i \in 1..Cardinality(K) |->
            CHOOSE k \in K :
              Cardinality({k2 \in K : KeyOrder(k2) <= KeyOrder(k)}) = i]

groupby_sum_unsorted(df, by, col) ==
    LET keys == AppearanceKeys(Column(df, by))
    IN  [i \in 1..Len(keys) |->
            [key |-> keys[i],
             value |-> Sum(Column(RowsOfKey(df, by, keys[i]), col))]]

\* df.groupby(by)[col].sum(): a series indexed by the sorted group keys
groupby_sum(df, by, col) ==
    LET keys == SortedKeys(Column(df, by))
    IN  [i \in 1..Len(keys) |->
            [key |-> keys[i],
             value |-> Sum(Column(RowsOfKey(df, by, keys[i]), col))]]

idxmax_default(series) ==
    IF series = <<>> THEN Return("")
    ELSE LET first == CHOOSE i \in 1..Len(series) :
                        /\ \A j \in 1..Len(series) :
                              series[j].value <= series[i].value
                        /\ \A j \in 1..(i - 1) :
                              series[j].value < series[i].value
         IN  Return(series[first].key)

\* series.idxmax(): the index label of the first occurrence of the maximum;
\* raises ValueError on an empty series
idxmax(series) ==
    IF series = <<>> THEN Raise("ValueError")
    ELSE LET first == CHOOSE i \in 1..Len(series) :
                        /\ \A j \in 1..Len(series) :
                              series[j].value <= series[i].value
                        /\ \A j \in 1..(i - 1) :
                              series[j].value < series[i].value
         IN  Return(series[first].key)

\* str(x) of a time label, which is a string already
Str(x) == x

peak_sales_hour(df) ==
    LET peak == idxmax(groupby_sum(df, "Time", "TotalPrice"))
    IN  IF peak.ok THEN Return(Str(peak.val)) ELSE peak

top_selling_item(df) == idxmax(groupby_sum(df, "Item", "Quantity"))

most_profitable_item(df) == idxmax(groupby_sum(df, "Item", "Profit"))

\* margin_threshold: float = 10.0, qty_threshold: int = 5
DefaultMarginThreshold == 10
DefaultQtyThreshold == 5

low_margin_high_sellers_le(df, margin_threshold, qty_threshold) ==
    LET keys == SortedKeys(Column(df, "Item"))
        grouped == [i \in 1..Len(keys) |->
            LET rows == RowsOfKey(df, "Item", keys[i])
                quantity == Sum(Column(rows, "Quantity"))
                total_price == Sum(Column(rows, "TotalPrice"))
                profit == Sum(Column(rows, "Profit"))
            IN  [Item |-> keys[i], Quantity |-> quantity,
                 TotalPrice |-> total_price, Profit |-> profit,
                 Margin |-> Times100(TrueDiv(profit, total_price))]]
        mask == [i \in 1..Len(grouped) |->
                    /\ grouped[i].Quantity >= qty_threshold
                    /\ \/ FloatLess(grouped[i].Margin, margin_threshold)
                       \/ grouped[i].Margin = margin_threshold]
    IN  Column(Filter(grouped, mask), "Item")

low_margin_high_sellers(df, margin_threshold, qty_threshold) ==
    LET keys == SortedKeys(Column(df, "Item"))
        grouped == [i \in 1..Len(keys) |->
            LET rows == RowsOfKey(df, "Item", keys[i])
                quantity == Sum(Column(rows, "Quantity"))
                total_price == Sum(Column(rows, "TotalPrice"))
                profit == Sum(Column(rows, "Profit"))
            IN  [Item |-> keys[i], Quantity |-> quantity,
                 TotalPrice |-> total_price, Profit |-> profit,
                 Margin |-> Times100(TrueDiv(profit, total_price))]]
        mask == [i \in 1..Len(grouped) |->
                    /\ grouped[i].Quantity >= qty_threshold
                    /\ FloatLess(grouped[i].Margin, margin_threshold)]
    IN  Column(Filter(grouped, mask), "Item")

(* --------------------------- summary composer -------------------------- *)

\* An optional list argument: None, or a list of strings
PyNone == [none |-> TRUE, items |-> <<>>]
PyList(l) == [none |-> FALSE, items |-> l]

Truthy_NotNone(x) == ~x.none

\* if x: neither None nor an empty list
Truthy(x) == ~x.none /\ x.items # <<>>

\* sep.join(l)
RECURSIVE Join(_, _)
Join(sep, l) ==
    IF Len(l) <= 1 THEN l
    ELSE <<Head(l), sep>> \o Join(sep, Tail(l))

DigitChars == <<"0", "1", "2", "3", "4", "5", "6", "7", "8", "9">>

\* The decimal digits of a natural number
RECURSIVE Digits(_)
Digits(n) ==
    IF n < 10 THEN <<DigitChars[n + 1]>>
    ELSE Append(Digits(n \div 10), DigitChars[(n % 10) + 1])

\* The last places digits of n, zero padded
RECURSIVE FixedDigits(_, _)
FixedDigits(n, places) ==
    IF places = 0 THEN <<>>
    ELSE Append(FixedDigits(n \div 10, places - 1), DigitChars[(n % 10) + 1])

\* The ',' option: a comma before every group of three digits
RECURSIVE Grouped(_)
Grouped(ds) ==
    IF Len(ds) <= 3 THEN ds
    ELSE Grouped(SubSeq(ds, 1, Len(ds) - 3)) \o <<",">>
         \o SubSeq(ds, Len(ds) - 2, Len(ds))

RECURSIVE Pow10(_)
Pow10(k) == IF k = 0 THEN 1 ELSE 10 * Pow10(k - 1)

\* n / d for n >= 0, d > 0 rounded to the nearest integer, ties to even
RoundHalfEven(n, d) ==
    LET q == n \div d
        r == n % d
    IN  IF 2 * r > d THEN q + 1
        ELSE IF 2 * r < d THEN q
        ELSE q + (q % 2)

\* format(x, ',.<places>f') when grouping, '.<places>f' otherwise
FormatFixed(x, places, grouping) ==
    IF x.kind = "nan" THEN <<"nan">>
    ELSE IF x.kind = "inf" THEN <<"inf">>
    ELSE IF x.kind = "-inf" THEN <<"-inf">>
    ELSE LET h == RoundHalfEven(Abs(x.n) * Pow10(places), x.d)
             whole == Digits(h \div Pow10(places))
         IN  (IF x.n < 0 THEN <<"-">> ELSE <<>>)
             \o (IF grouping THEN Grouped(whole) ELSE whole)
             \o <<".">> \o FixedDigits(h % Pow10(places), places)

\* str(n) of an int
FormatInt(n) == (IF n < 0 THEN <<"-">> ELSE <<>>) \o Digits(Abs(n))

BaseParagraph(total_revenue, total_profit, gross_margin_, total_units_sold, number_of_transactions, average_basket_size_, peak_sales_hour_, top_selling_item_, most_profitable_item_) ==
    <<"Your store earned $">> \o FormatFixed(total_revenue, 2, TRUE)
    \o <<" in revenue and made $">> \o FormatFixed(total_profit, 2, TRUE)
    \o <<" in profit today, ">>
    \o <<"with a gross margin of ">> \o FormatFixed(gross_margin_, 1, FALSE)
    \o <<"%. ">>
    \o <<"A total of ">> \o FormatInt(total_units_sold)
    \o <<" items were sold in ">> \o FormatInt(number_of_transactions)
    \o <<" transactions. ">>
    \o <<"Average basket size was ">>
    \o FormatFixed(average_basket_size_, 2, FALSE)
    \o <<" units per transaction. ">>
    \o <<"Peak sales occurred at ">> \o <<peak_sales_hour_>> \o <<". ">>
    \o <<top_selling_item_>> \o <<" led sales, while ">>
    \o <<most_profitable_item_>> \o <<" was the most profitable item. ">>

LowStockLabel == "\nLow stock items: "
UnsoldLabel == "\nUnsold items: "
FastMoversLabel == "\nFast movers (sold out/nearly sold out): "
LowMarginLabel == "\nHigh-selling, low-margin items: "

\* summary += f"{label}{', '.join(l)}." when the list is truthy
DiagnosticLine(label, l) ==
    IF Truthy(l) THEN <<label>> \o Join(", ", l.items) \o <<".">> ELSE <<>>

natural_language_summary(total_revenue, total_cost, total_profit, gross_margin_, total_units_sold, number_of_transactions, average_basket_size_, peak_sales_hour_, top_selling_item_, most_profitable_item_, low_stock_items_, unsold_items_, fast_movers_, low_margin_high_sellers_) ==
    BaseParagraph(total_revenue, total_profit, gross_margin_,
                  total_units_sold, number_of_transactions,
                  average_basket_size_, peak_sales_hour_, top_selling_item_,
                  most_profitable_item_)
    \o DiagnosticLine(LowStockLabel, low_stock_items_)
    \o DiagnosticLine(UnsoldLabel, unsold_items_)
    \o DiagnosticLine(FastMoversLabel, fast_movers_)
    \o DiagnosticLine(LowMarginLabel, low_margin_high_sellers_)

(* ------------------------------ actions -------------------------------- *)

CallLowStockItems ==
    /\ fn = "none"
    /\ \E threshold \in Thresholds :
         /\ args' = [threshold |-> threshold]
         /\ out' = Return(low_stock_items(inv, threshold))
    /\ fn' = "low_stock_items"
    /\ UNCHANGED <<sales, inv>>

CallFastMovers ==
    /\ fn = "none"
    /\ args' = NoArgs
    /\ out' = Return(fast_movers(inv))
    /\ fn' = "fast_movers"
    /\ UNCHANGED <<sales, inv>>

CallUnsoldItems ==
    /\ fn = "none"
    /\ args' = NoArgs
    /\ \E l \in unsold_items(inv, sales) : out' = Return(l)
    /\ fn' = "unsold_items"
    /\ UNCHANGED <<sales, inv>>

CallGrossMargin ==
    /\ fn = "none"
    /\ args' = NoArgs
    /\ out' = Return(gross_margin(sales))
    /\ fn' = "gross_margin"
    /\ UNCHANGED <<sales, inv>>

CallAverageBasketSize ==
    /\ fn = "none"
    /\ args' = NoArgs
    /\ out' = Return(average_basket_size(sales))
    /\ fn' = "average_basket_size"
    /\ UNCHANGED <<sales, inv>>

CallPeakSalesHour ==
    /\ fn = "none"
    /\ args' = NoArgs
    /\ out' = peak_sales_hour(sales)
    /\ fn' = "peak_sales_hour"
    /\ UNCHANGED <<sales, inv>>

CallTopSellingItem ==
    /\ fn = "none"
    /\ args' = NoArgs
    /\ out' = top_selling_item(sales)
    /\ fn' = "top_selling_item"
    /\ UNCHANGED <<sales, inv>>

CallMostProfitableItem ==
    /\ fn = "none"
    /\ args' = NoArgs
    /\ out' = most_profitable_item(sales)
    /\ fn' = "most_profitable_item"
    /\ UNCHANGED <<sales, inv>>

MarginThresholds == {Fin(DefaultMarginThreshold, 1), Fin(0, 1)}
QtyThresholds == {DefaultQtyThreshold, 3}

CallLowMarginHighSellers ==
    /\ fn = "none"
    /\ \E margin_threshold \in MarginThresholds, qty_threshold \in QtyThresholds :
         /\ args' = [margin_threshold |-> margin_threshold,
                     qty_threshold |-> qty_threshold]
         /\ out' = Return(low_margin_high_sellers(sales, margin_threshold,
                                                  qty_threshold))
    /\ fn' = "low_margin_high_sellers"
    /\ UNCHANGED <<sales, inv>>

\* The scalar metrics of the end-to-end scenario, and a second bundle with
\* a loss, a grouped amount and ties in the rounding
ScenarioBundle ==
    [total_revenue |-> Fin(11, 1), total_cost |-> Fin(7, 2),
     total_profit |-> Fin(15, 2), gross_margin |-> Fin(750, 11),
     total_units_sold |-> 4, number_of_transactions |-> 2,
     average_basket_size |-> Fin(2, 1), peak_sales_hour |-> "09:00",
     top_selling_item |-> "Coffee", most_profitable_item |-> "Coffee"]

LossBundle ==
    [total_revenue |-> Fin(2469135, 2), total_cost |-> Fin(1234570, 1),
     total_profit |-> Fin(-5, 2), gross_margin |-> Fin(-1, 4),
     total_units_sold |-> 1234, number_of_transactions |-> 7,
     average_basket_size |-> Fin(1234, 7), peak_sales_hour |-> "10:00",
     top_selling_item |-> "Tea", most_profitable_item |-> "Milk"]

Bundles == {ScenarioBundle, LossBundle}

ListArgs ==
    {PyNone} \cup {PyList(l) : l \in SeqsUpTo({"Coffee", "Tea"}, MaxList)}

CallNaturalLanguageSummary ==
    /\ fn = "none"
    /\ \E b \in Bundles, ls \in ListArgs, us \in ListArgs,
          fm \in ListArgs, lm \in ListArgs :
         /\ args' = [bundle |-> b, low_stock_items |-> ls,
                     unsold_items |-> us, fast_movers |-> fm,
                     low_margin_high_sellers |-> lm]
         /\ out' = Return(natural_language_summary(
                      b.total_revenue, b.total_cost, b.total_profit,
                      b.gross_margin, b.total_units_sold,
                      b.number_of_transactions, b.average_basket_size,
                      b.peak_sales_hour, b.top_selling_item,
                      b.most_profitable_item, ls, us, fm, lm))
    /\ fn' = "natural_language_summary"
    /\ UNCHANGED <<sales, inv>>

(* ------------------- inventory-only specification ---------------------- *)

StockRows == {InvRow(i, s) : i \in ItemSet, s \in StockVals}

InitStock ==
    /\ inv \in SeqsUpTo(StockRows, MaxInv)
    /\ sales = <<>>
    /\ fn = "none"
    /\ args = NoArgs
    /\ out = None

NextStock == CallLowStockItems \/ CallFastMovers

SpecStock == InitStock /\ [][NextStock]_vars

(* ------------- inventory and sales items specification ----------------- *)

\* The rows of the end-to-end scenario; money is in cents
ScenarioInventory ==
    <<InvRow("Coffee", 2), InvRow("Tea", 50), InvRow("Milk", 0)>>

ScenarioSales ==
    <<SaleRow("Coffee", 3, 900, 600, "09:00"),
      SaleRow("Tea", 1, 200, 150, "10:00")>>

ItemSaleRows == Range(ScenarioSales) \cup {SaleRow("Milk", 2, 300, 100, "10:00")}

InitInventory ==
    /\ inv \in SeqsUpTo(Range(ScenarioInventory), MaxInv)
    /\ sales \in SeqsUpTo(ItemSaleRows, MaxRows)
    /\ fn = "none"
    /\ args = NoArgs
    /\ out = None

NextInventory == CallLowStockItems \/ CallUnsoldItems \/ CallFastMovers

SpecInventory == InitInventory /\ [][NextInventory]_vars

(* --------------------- aggregation specification ----------------------- *)

\* (Quantity, Total Price, Profit) of the sales rows drawn
AggCells == {<<1, 0, -1>>, <<1, 2, 1>>, <<2, 2, -2>>, <<2, 4, 2>>}

AggRows ==
    {SaleRow(i, c[1], c[2], c[3], t) :
        i \in {"Coffee", "Tea"}, c \in AggCells, t \in TimeSet}

InitAgg ==
    /\ sales \in SeqsUpTo(AggRows, MaxRows)
    /\ inv = <<>>
    /\ fn = "none"
    /\ args = NoArgs
    /\ out = None

NextAgg ==
    \/ CallGrossMargin
    \/ CallAverageBasketSize
    \/ CallPeakSalesHour
    \/ CallTopSellingItem
    \/ CallMostProfitableItem

SpecAgg == InitAgg /\ [][NextAgg]_vars

(* ------------------------ margin specification ------------------------- *)

MarginCells ==
    {<<2, 10, 1>>, <<3, 10, 1>>, <<3, 10, 0>>, <<2, 0, -1>>, <<3, 0, 1>>}

MarginRows ==
    {SaleRow(i, c[1], c[2], c[3], "09:00") :
        i \in {"Coffee", "Tea"}, c \in MarginCells}

InitMargin ==
    /\ sales \in SeqsUpTo(MarginRows, MaxRows)
    /\ inv = <<>>
    /\ fn = "none"
    /\ args = NoArgs
    /\ out = None

NextMargin == CallLowMarginHighSellers

SpecMargin == InitMargin /\ [][NextMargin]_vars

(* ------------------------ summary specification ------------------------ *)

InitSummary ==
    /\ sales = <<>>
    /\ inv = <<>>
    /\ fn = "none"
    /\ args = NoArgs
    /\ out = None

NextSummary == CallNaturalLanguageSummary

SpecSummary == InitSummary /\ [][NextSummary]_vars

(* ======================= properties of the metrics ===================== *)

\* The items of the inventory rows and of the sales rows
InvItems == {inv[i].Item : i \in 1..Len(inv)}
SoldItems == {sales[i].Item : i \in 1..Len(sales)}

NoDuplicates(l) == \A i, j \in 1..Len(l) : l[i] = l[j] => i = j

\* l lists, in ascending index order, the Item cells of the rows of df
\* whose indices are in idx
ListsRowsOf(l, df, idx) ==
    /\ Len(l) = Cardinality(idx)
    /\ \A i \in idx : l[Cardinality({j \in idx : j <= i})] = df[i].Item

RECURSIVE IsSubsequence(_, _)
IsSubsequence(s, t) ==
    IF s = <<>> THEN TRUE
    ELSE IF t = <<>> THEN FALSE
    ELSE IF Head(s) = Head(t) THEN IsSubsequence(Tail(s), Tail(t))
    ELSE IsSubsequence(s, Tail(t))

\* The end-to-end scenario: the scenario's inventory, and sales whose rows
\* are Coffee and Tea rows only
InScenario ==
    /\ inv = ScenarioInventory
    /\ SoldItems = {"Coffee", "Tea"}

\* C1 as stated: in the end-to-end scenario low_stock_items with threshold
\* 10 returns ["Coffee"], unsold_items returns the set {"Milk"} and
\* fast_movers returns ["Coffee", "Milk"].
C1_Original ==
    InScenario =>
      /\ (fn = "low_stock_items" /\ args.threshold = DefaultThreshold)
            => out = Return(<<"Coffee">>)
      /\ fn = "unsold_items" => (out.ok /\ Range(out.val) = {"Milk"})
      /\ fn = "fast_movers" => out = Return(<<"Coffee", "Milk">>)

\* C1 amended: in the end-to-end scenario low_stock_items with threshold 10
\* returns ["Coffee", "Milk"] (Milk's stock 0 is below 10), unsold_items
\* returns the set {"Milk"} and fast_movers returns ["Milk"] (Coffee's
\* stock 2 is above 1).
C1_Scenario ==
    InScenario =>
      /\ (fn = "low_stock_items" /\ args.threshold = DefaultThreshold)
            => out = Return(<<"Coffee", "Milk">>)
      /\ fn = "unsold_items" => (out.ok /\ Range(out.val) = {"Milk"})
      /\ fn = "fast_movers" => out = Return(<<"Milk">>)

C1_Witness ==
    /\ InScenario
    /\ sales = ScenarioSales
    /\ fn = "fast_movers"
    /\ out = Return(<<"Milk">>)

\* C5: unsold_items returns, without duplicates, exactly the inventory items
\* that appear in no sales row: nothing when every inventory item was sold,
\* every inventory item when the sales table is empty, never an item absent
\* from the inventory or present in sales.
C5_UnsoldIsDifference ==
    fn = "unsold_items" =>
      /\ out.ok
      /\ NoDuplicates(out.val)
      /\ \A x \in ItemSet :
           x \in Range(out.val) <=>
             /\ \E i \in 1..Len(inv) : inv[i].Item = x
             /\ \A j \in 1..Len(sales) : sales[j].Item # x
      /\ InvItems \subseteq SoldItems => out.val = <<>>
      /\ sales = <<>> => Range(out.val) = InvItems
      /\ Range(out.val) \subseteq InvItems
      /\ Range(out.val) \cap SoldItems = {}

\* an inventory with a repeated item, one of its items sold, one unsold
C5_Witness ==
    /\ fn = "unsold_items"
    /\ Len(inv) > Cardinality(InvItems)
    /\ SoldItems \cap InvItems # {}
    /\ Len(out.val) = 1

\* C7: low_stock_items returns exactly the Item values of the rows with
\* Stock strictly below the threshold, in row order; a row with Stock equal
\* to the threshold is excluded; the list is empty when no row matches.
C7_LowStockExact ==
    fn = "low_stock_items" =>
      LET below == {i \in 1..Len(inv) : inv[i].Stock < args.threshold}
      IN  /\ out.ok
          /\ ListsRowsOf(out.val, inv, below)
          /\ below = {} => out.val = <<>>
          /\ Len(out.val) =
               Len(inv) - Cardinality({i \in 1..Len(inv) :
                                          inv[i].Stock >= args.threshold})

\* default threshold; a row at the threshold left out between two rows kept
C7_Witness ==
    /\ fn = "low_stock_items"
    /\ args.threshold = DefaultThreshold
    /\ Len(inv) = 3
    /\ inv[1].Stock < DefaultThreshold
    /\ inv[2].Stock = DefaultThreshold
    /\ inv[3].Stock < DefaultThreshold
    /\ inv[1].Item # inv[3].Item
    /\ out.val = <<inv[1].Item, inv[3].Item>>

\* C10: fast_movers(inv) equals low_stock_items(inv, 2), hence is an
\* order-preserving subsequence of low_stock_items(inv, t) for every t >= 2,
\* the default 10 included.
C10_FastMoversAreLowStock ==
    fn = "fast_movers" =>
      /\ out = Return(low_stock_items(inv, 2))
      /\ \A t \in 2..(DefaultThreshold + 1) :
           IsSubsequence(out.val, low_stock_items(inv, t))

\* a fast mover next to a row that is low stock but not a fast mover
C10_Witness ==
    /\ fn = "fast_movers"
    /\ out.val # <<>>
    /\ \E i \in 1..Len(inv) : inv[i].Stock = 1
    /\ \E i \in 1..Len(inv) : inv[i].Stock = 2
    /\ Len(low_stock_items(inv, DefaultThreshold)) > Len(out.val)

(* ==================== properties of the sales metrics ================= *)

\* The sum of a column over the sales rows with indices in I
RECURSIVE RowSum(_, _)
RowSum(col, I) ==
    IF I = {} THEN 0
    ELSE LET i == CHOOSE x \in I : TRUE
         IN  sales[i][col] + RowSum(col, I \ {i})

RowsWith(by, k) == {i \in 1..Len(sales) : sales[i][by] = k}
KeysOf(by) == {sales[i][by] : i \in 1..Len(sales)}
AllRows == 1..Len(sales)

\* k is a group with the maximal total, and the least such in key order
IsFirstMax(by, col, k) ==
    /\ k \in KeysOf(by)
    /\ \A k2 \in KeysOf(by) :
         /\ RowSum(col, RowsWith(by, k)) >= RowSum(col, RowsWith(by, k2))
         /\ RowSum(col, RowsWith(by, k)) = RowSum(col, RowsWith(by, k2))
              => KeyOrder(k) <= KeyOrder(k2)

Reordered(p) == [i \in 1..Len(sales) |-> sales[p[i]]]

\* C2: on a non-empty table peak_sales_hour, top_selling_item and
\* most_profitable_item return a group key whose total is at least every
\* other group's; among groups sharing the maximum it is the first in
\* ascending key order, whatever the order of the rows.
C2_FirstMaxKey ==
    sales # <<>> =>
      /\ fn = "peak_sales_hour" =>
           /\ out.ok /\ IsFirstMax("Time", "TotalPrice", out.val)
           /\ \A p \in Permutations(AllRows) :
                peak_sales_hour(Reordered(p)) = out
      /\ fn = "top_selling_item" =>
           /\ out.ok /\ IsFirstMax("Item", "Quantity", out.val)
           /\ \A p \in Permutations(AllRows) :
                top_selling_item(Reordered(p)) = out
      /\ fn = "most_profitable_item" =>
           /\ out.ok /\ IsFirstMax("Item", "Profit", out.val)
           /\ \A p \in Permutations(AllRows) :
                most_profitable_item(Reordered(p)) = out

\* two groups tie on a negative profit; the later key comes first in the table
C2_Witness ==
    /\ fn = "most_profitable_item"
    /\ Len(sales) = 3
    /\ sales[1].Item = "Tea"
    /\ RowSum("Profit", RowsWith("Item", "Tea")) < 0
    /\ RowSum("Profit", RowsWith("Item", "Tea"))
         = RowSum("Profit", RowsWith("Item", "Coffee"))
    /\ Cardinality(RowsWith("Item", "Tea")) = 2
    /\ out = Return("Coffee")

GroupMaxFns == {"peak_sales_hour", "top_selling_item", "most_profitable_item"}

C4_ZeroDenominatorDefaults ==
    /\ fn = "gross_margin" =>
         LET revenue == RowSum("TotalPrice", AllRows)
             profit == RowSum("Profit", AllRows)
         IN  /\ out.ok
             /\ out.val.kind = "fin"
             /\ revenue = 0 => (out.val.n = 0 /\ out.val.d = 1)
             /\ revenue # 0 => out.val.n * revenue = profit * 100 * out.val.d
    /\ fn = "average_basket_size" =>
         LET quantity == RowSum("Quantity", AllRows)
         IN  /\ out.ok
             /\ out.val.kind = "fin"
             /\ Len(sales) = 0 => (out.val.n = 0 /\ out.val.d = 1)
             /\ Len(sales) # 0 => out.val.n * Len(sales) = quantity * out.val.d

\* rows without revenue but with a non-zero total profit
C4_Witness ==
    /\ fn = "gross_margin"
    /\ sales # <<>>
    /\ RowSum("TotalPrice", AllRows) = 0
    /\ RowSum("Profit", AllRows) # 0
    /\ out = Return(Fin(0, 1))

\* The exact comparison (profit / revenue) * 100 < threshold, revenue # 0
MarginBelow(profit, revenue, threshold) ==
    IF revenue > 0
    THEN profit * 100 * threshold.d < threshold.n * revenue
    ELSE profit * 100 * threshold.d > threshold.n * revenue

MarginEquals(profit, revenue, threshold) ==
    profit * 100 * threshold.d = threshold.n * revenue

C9_ZeroRevenueGroups ==
    fn = "low_margin_high_sellers" =>
      /\ out.ok
      /\ \A k \in KeysOf("Item") :
           LET quantity == RowSum("Quantity", RowsWith("Item", k))
               revenue == RowSum("TotalPrice", RowsWith("Item", k))
               profit == RowSum("Profit", RowsWith("Item", k))
           IN  revenue = 0 =>
                 /\ k \in Range(out.val) <=>
                      (profit < 0 /\ quantity >= args.qty_threshold)
                 /\ profit >= 0 => k \notin Range(out.val)

\* a zero-revenue group with a loss is returned, one with a gain is not
C9_Witness ==
    /\ fn = "low_margin_high_sellers"
    /\ \E k \in KeysOf("Item") :
         /\ RowSum("TotalPrice", RowsWith("Item", k)) = 0
         /\ RowSum("Profit", RowsWith("Item", k)) < 0
         /\ k \in Range(out.val)
    /\ \E k \in KeysOf("Item") :
         /\ RowSum("TotalPrice", RowsWith("Item", k)) = 0
         /\ RowSum("Profit", RowsWith("Item", k)) > 0
         /\ RowSum("Quantity", RowsWith("Item", k)) >= args.qty_threshold
         /\ k \notin Range(out.val)

(* ===================== properties of the summary ======================= *)

DiagnosticLabels ==
    <<LowStockLabel, UnsoldLabel, FastMoversLabel, LowMarginLabel>>

DiagnosticArgs ==
    <<args.low_stock_items, args.unsold_items, args.fast_movers,
      args.low_margin_high_sellers>>

NonEmptyList(x) == ~x.none /\ Len(x.items) > 0

\* The positions of the i-th label in the summary
LabelAt(i) == {p \in 1..Len(out.val) : out.val[p] = DiagnosticLabels[i]}

SummaryBase ==
    BaseParagraph(args.bundle.total_revenue, args.bundle.total_profit,
                  args.bundle.gross_margin, args.bundle.total_units_sold,
                  args.bundle.number_of_transactions,
                  args.bundle.average_basket_size,
                  args.bundle.peak_sales_hour, args.bundle.top_selling_item,
                  args.bundle.most_profitable_item)

RECURSIVE LinesLength(_)
LinesLength(i) ==
    IF i = 0 THEN 0
    ELSE LinesLength(i - 1)
         + (IF NonEmptyList(DiagnosticArgs[i])
            THEN 2 * Len(DiagnosticArgs[i].items) + 1 ELSE 0)

\* C8: the summary starts with the base paragraph; each of the four
\* diagnostic lines is there iff its list is non-empty (None and [] add
\* nothing); the lines come in the fixed order, each made of its label, the
\* items in the order given separated by ", ", and a full stop,
\* whichever other lists are present.
C8_DiagnosticLines ==
    fn = "natural_language_summary" =>
      /\ out.ok
      /\ Len(out.val) = Len(SummaryBase) + LinesLength(4)
      /\ SubSeq(out.val, 1, Len(SummaryBase)) = SummaryBase
      /\ \A i \in 1..4 :
           /\ LabelAt(i) # {} <=> NonEmptyList(DiagnosticArgs[i])
           /\ Cardinality(LabelAt(i)) <= 1
           /\ \A p \in LabelAt(i) :
                LET items == DiagnosticArgs[i].items
                IN  /\ p > Len(SummaryBase)
                    /\ \A k \in 1..Len(items) : out.val[p + 2 * k - 1] = items[k]
                    /\ \A k \in 1..(Len(items) - 1) : out.val[p + 2 * k] = ", "
                    /\ out.val[p + 2 * Len(items)] = "."
                    /\ \/ p + 2 * Len(items) = Len(out.val)
                       \/ \E j \in (i + 1)..4 :
                            p + 2 * Len(items) + 1 \in LabelAt(j)
      /\ \A i, j \in 1..4 :
           i < j => \A p \in LabelAt(i), q \in LabelAt(j) : p < q

\* the scenario's bundle with an empty list, None, and two lists given
C8_Witness ==
    /\ fn = "natural_language_summary"
    /\ args.low_stock_items = PyList(<<"Tea", "Coffee">>)
    /\ args.unsold_items = PyList(<<>>)
    /\ args.fast_movers = PyNone
    /\ args.low_margin_high_sellers = PyList(<<"Coffee">>)
    /\ out.val =
         <<"Your store earned $", "1", "1", ".", "0", "0",
           " in revenue and made $", "7", ".", "5", "0", " in profit today, ",
           "with a gross margin of ", "6", "8", ".", "2", "%. ",
           "A total of ", "4", " items were sold in ", "2", " transactions. ",
           "Average basket size was ", "2", ".", "0", "0",
           " units per transaction. ",
           "Peak sales occurred at ", "09:00", ". ",
           "Coffee", " led sales, while ", "Coffee",
           " was the most profitable item. ",
           "\nLow stock items: ", "Tea", ", ", "Coffee", ".",
           "\nHigh-selling, low-margin items: ", "Coffee", ".">>

====
